---- MODULE Spec2Model ----
(***************************************************************************)
(* Model of dnscontrol-luaize (src/src/main.rs): the host process `main`,  *)
(* `luaize`, the expression translator `expr_to_str` /                     *)
(* `funcall_to_string` and the block writer `BlockWriter::write_block`.    *)
(*                                                                         *)
(* Text (a Rust String, the bytes of a line) is a sequence of characters,   *)
(* each a one-character string; names are texts too.  The byte buffer      *)
(* `buf` of write_block is kept as the sequence of its lines (every write  *)
(* into it is one `writeln!`, and no rendered text contains a line break). *)
(* The file is kept as the lines written to it, the last of which may be   *)
(* cut short by a failed write: its bytes are the texts of its lines, each *)
(* followed by a line feed where `nl` is set.                              *)
(***************************************************************************)
EXTENDS Integers, Sequences, FiniteSets, TLC

VARIABLES
    input,      \* what dnscontrol.lua holds: a Block, or Unparsable
    pc,         \* position of `main`
    stack,      \* the in-flight write_block invocations, outermost first
    indent,     \* BlockWriter.indent
    file,       \* the lines written to dnscontrol.js (real_out of the top call)
    ret,        \* the Result of luaize / of the write_block invocation returning
    exit,       \* how main ended
    spawned     \* whether Command::spawn has started dnscontrol

vars == <<input, pc, stack, indent, file, ret, exit, spawned>>

----------------------------------------------------------------------------
(* Bounds of the model *)

MaxBytes == 2      \* longest string literal built from SampleBytes
MaxArgs == 2       \* most arguments of a generated call
MaxStmts == 2      \* most statements of a generated flat block
MaxNest == 2       \* deepest nesting of generated blocks

----------------------------------------------------------------------------
(* Option<T>: None is the empty sequence, Some(x) the one-element sequence *)

None == <<>>
Some(x) == <<x>>
is_some(o) == o # <<>>

----------------------------------------------------------------------------
(* lua_parser::Expression and its parts *)

Ident(n) == [t |-> "Ident", name |-> n]
Bool(v) == [t |-> "Bool", value |-> v]
Numeric(v) == [t |-> "Numeric", value |-> v]
Nil == [t |-> "Nil"]
String(bytes) == [t |-> "String", value |-> bytes]
Unary(op, v) == [t |-> "Unary", op |-> op, value |-> v]
Binary(op, l, r) == [t |-> "Binary", op |-> op, lhs |-> l, rhs |-> r]
ExprFunctionCall(p, m, as) == [prefix |-> p, method |-> m, args |-> as]
FunctionCall(p, m, as) == [t |-> "FunctionCall", call |-> ExprFunctionCall(p, m, as)]
Table(fs) == [t |-> "Table", fields |-> fs]
TableIndex(tb, ix) == [t |-> "TableIndex", table |-> tb, index |-> ix]
Variadic == [t |-> "Variadic"]
KeyValue(k, v) == [t |-> "KeyValue", key |-> k, value |-> v]
NameValue(n, v) == [t |-> "NameValue", name |-> n, value |-> v]
Value(v) == [t |-> "Value", value |-> v]

(* lua_parser::Statement, Block, ReturnStatement *)

StmtNone == [t |-> "None"]
Assignment(l, r) == [t |-> "Assignment", lhs |-> l, rhs |-> r]
LocalDeclaration(ns, vs) == [t |-> "LocalDeclaration", names |-> ns, values |-> vs]
ElseIf(c, b) == [condition |-> c, block |-> b]
If(c, b, eis, eb) ==
    [t |-> "If", condition |-> c, block |-> b, else_ifs |-> eis, else_block |-> eb]
While(c, b) == [t |-> "While", condition |-> c, block |-> b]
For(n, s, e, st, b) ==
    [t |-> "For", name |-> n, start |-> s, end |-> e, step |-> st, block |-> b]
Break == [t |-> "Break"]
Do(b) == [t |-> "Do", block |-> b]
StmtFunctionCall(p, m, as) == [t |-> "FunctionCall", call |-> ExprFunctionCall(p, m, as)]
FunctionDefinition(ns, ps, va, b) ==
    [t |-> "FunctionDefinition", names |-> ns, parameters |-> ps, variadic |-> va, block |-> b]
FunctionDefinitionLocal(n, ps, va, b) ==
    [t |-> "FunctionDefinitionLocal", name |-> n, parameters |-> ps, variadic |-> va, block |-> b]
Repeat(b, c) == [t |-> "Repeat", block |-> b, condition |-> c]
Goto(n) == [t |-> "Goto", name |-> n]
ReturnStatement(vs) == [values |-> vs]
Block(ss, r) == [t |-> "Block", statements |-> ss, return_statement |-> r]
Unparsable == [t |-> "Unparsable"]

----------------------------------------------------------------------------
(* Result<String> and the errors of eyre!(..) *)

NoNode == [t |-> "-"]
Ok(s) == [ok |-> TRUE, s |-> s]
Err(msg, node) == [ok |-> FALSE, err |-> [msg |-> msg, node |-> node]]

----------------------------------------------------------------------------
(* Text helpers *)

RECURSIVE to_string(_)
\* i64 Display: a minus sign when negative, then the decimal digits, most
\* significant first
to_string(n) ==
    LET m == IF n < 0 THEN 0 - n ELSE n
        digit == <<"0", "1", "2", "3", "4", "5", "6", "7", "8", "9">>[(m % 10) + 1]
    IN IF n < 0 THEN <<"-">> \o to_string(m)
       ELSE IF n < 10 THEN <<digit>> ELSE to_string(n \div 10) \o <<digit>>

RECURSIVE lower_hex(_)
\* format "{:x?}" of a u8: lower-case hexadecimal, no padding
lower_hex(c) ==
    LET digit == <<"0", "1", "2", "3", "4", "5", "6", "7", "8", "9",
                   "a", "b", "c", "d", "e", "f">>[(c % 16) + 1]
    IN IF c < 16 THEN <<digit>> ELSE lower_hex(c \div 16) \o <<digit>>

RECURSIVE escape_bytes(_)
\* for c in &expr.value { s += &format!("\\x{:x?}", c) }
escape_bytes(bytes) ==
    IF bytes = <<>> THEN <<>>
    ELSE <<"\\", "x">> \o lower_hex(Head(bytes)) \o escape_bytes(Tail(bytes))

RECURSIVE join(_, _)
\* [String]::join(sep)
join(names, sep) ==
    IF names = <<>> THEN <<>>
    ELSE IF Len(names) = 1 THEN names[1]
    ELSE names[1] \o sep \o join(Tail(names), sep)

RECURSIVE repeat(_, _)
\* str::repeat of the indentation unit
repeat(unit, n) == IF n = 0 THEN <<>> ELSE unit \o repeat(unit, n - 1)

IndentUnit == <<" ", " ", " ", " ">>

----------------------------------------------------------------------------
(* Expression translator *)

\* the match of Expression::Binary: the target operator, "" when unsupported
binary_op(op) ==
    CASE op = "Add" -> <<"+">>
      [] op = "Sub" -> <<"-">>
      [] op = "Mul" -> <<"*">>
      [] op = "Div" -> <<"/">>
      [] op = "FloorDiv" -> <<"/">>
      [] op = "Mod" -> <<"*">>
      [] op = "Concat" -> <<"+">>
      [] op = "Equal" -> <<"=", "=", "=">>
      [] op = "NotEqual" -> <<"!", "=", "=">>
      [] op = "GreaterThan" -> <<">">>
      [] op = "GreaterEqual" -> <<">", "=">>
      [] op = "LessThan" -> <<"<">>
      [] op = "LessEqual" -> <<"<", "=">>
      [] OTHER -> <<>>

RECURSIVE expr_to_str(_), funcall_to_string(_), args_to_str(_, _), fields_to_str(_, _)

\* the argument loop of funcall_to_string, from argument i on
args_to_str(args, i) ==
    IF i > Len(args) THEN Ok(<<>>)
    ELSE LET a == expr_to_str(args[i])
         IN IF ~a.ok THEN a
            ELSE LET rest == args_to_str(args, i + 1)
                 IN IF ~rest.ok THEN rest
                    ELSE Ok(a.s \o (IF i < Len(args) THEN <<",", " ">> ELSE <<>>) \o rest.s)

funcall_to_string(expr) ==
    LET callee == IF is_some(expr.method) THEN Ok(expr.method[1])
                  ELSE expr_to_str(expr.prefix)
    IN IF ~callee.ok THEN callee
       ELSE LET recv == IF is_some(expr.method) THEN expr_to_str(expr.prefix) ELSE Ok(<<>>)
            IN IF ~recv.ok THEN recv
               ELSE LET sep == IF is_some(expr.method) /\ expr.args # <<>>
                               THEN <<",", " ">> ELSE <<>>
                        args == args_to_str(expr.args, 1)
                    IN IF ~args.ok THEN args
                       ELSE Ok(callee.s \o <<"(">> \o recv.s \o sep \o args.s \o <<")">>)

\* the field loop of Expression::Table, from field i on
fields_to_str(fields, i) ==
    IF i > Len(fields) THEN Ok(<<>>)
    ELSE LET f == fields[i]
             sep == IF i < Len(fields) THEN <<",", " ">> ELSE <<>>
             one ==
                CASE f.t = "KeyValue" ->
                        LET k == expr_to_str(f.key)
                        IN IF ~k.ok THEN k
                           ELSE LET v == expr_to_str(f.value)
                                IN IF ~v.ok THEN v ELSE Ok(k.s \o <<":", " ">> \o v.s)
                  [] f.t = "NameValue" ->
                        LET v == expr_to_str(f.value)
                        IN IF ~v.ok THEN v ELSE Ok(<<"\"">> \o f.name \o <<"\"", ":", " ">> \o v.s)
                  [] OTHER -> Err("Table value without a key currently unsupported", NoNode)
         IN IF ~one.ok THEN one
            ELSE LET rest == fields_to_str(fields, i + 1)
                 IN IF ~rest.ok THEN rest ELSE Ok(one.s \o sep \o rest.s)

expr_to_str(expr) ==
    CASE expr.t = "Ident" ->
            IF expr.name = <<"t", "h", "i", "s">> THEN Err("Illegal identifier 'this'", NoNode)
            ELSE Ok(expr.name)
      [] expr.t = "Bool" -> Ok(IF expr.value THEN <<"t", "r", "u", "e">> ELSE <<"f", "a", "l", "s", "e">>)
      [] expr.t = "Numeric" -> Ok(to_string(expr.value))
      [] expr.t = "Nil" -> Ok(<<"u", "n", "d", "e", "f", "i", "n", "e", "d">>)
      [] expr.t = "String" -> Ok(<<"\"">> \o escape_bytes(expr.value) \o <<"\"">>)
      [] expr.t = "Unary" ->
            IF expr.op \in {"Length", "Minus", "Plus"}
            THEN LET v == expr_to_str(expr.value)
                 IN IF ~v.ok THEN v
                    ELSE CASE expr.op = "Length" -> Ok(<<"(">> \o v.s \o <<".", "l", "e", "n", "g", "t", "h", ")">>)
                           [] expr.op = "Minus" -> Ok(<<"(", "-">> \o v.s \o <<")">>)
                           [] expr.op = "Plus" -> Ok(<<"(", "+">> \o v.s \o <<")">>)
            ELSE Err("Expression currently unsupported", expr)
      [] expr.t = "Binary" ->
            IF binary_op(expr.op) = <<>> THEN Err("Unsupported binary operator", expr)
            ELSE LET l == expr_to_str(expr.lhs)
                 IN IF ~l.ok THEN l
                    ELSE LET r == expr_to_str(expr.rhs)
                         IN IF ~r.ok THEN r
                            ELSE Ok(<<"(">> \o l.s \o binary_op(expr.op) \o r.s \o <<")">>)
      [] expr.t = "FunctionCall" -> funcall_to_string(expr.call)
      [] expr.t = "Table" ->
            LET fs == fields_to_str(expr.fields, 1)
            IN IF ~fs.ok THEN fs ELSE Ok(<<"(", "{">> \o fs.s \o <<"}", ")">>)
      [] expr.t = "TableIndex" ->
            LET tb == expr_to_str(expr.table)
            IN IF ~tb.ok THEN tb
               ELSE LET ix == expr_to_str(expr.index)
                    IN IF ~ix.ok THEN ix
                       ELSE Ok(<<"(">> \o tb.s \o <<"[">> \o ix.s \o <<"]", ")">>)
      [] OTHER -> Err("Expression unsupported", expr)

----------------------------------------------------------------------------
(* Block writer: one write_block invocation is a frame of `stack`.         *)
(* `todo` is the rest of the invocation's body: the statements not yet     *)
(* visited, the rest of the statement being rendered (its closing lines,   *)
(* else-if heads and nested calls) and the trailing return statement.      *)
(* `buf` is the invocation's private buffer.  A line keeps, next to its    *)
(* text, the nesting depth of the invocation that rendered it.             *)

Stmt(s) == [k |-> "stmt", node |-> s]            \* a statement of block.statements
Line(s) == [k |-> "line", s |-> s]               \* writeln!(out, <literal>)
Cond(pre, e, post) == [k |-> "cond", pre |-> pre, e |-> e, post |-> post]
Call(b) == [k |-> "call", block |-> b]           \* self.write_block(out, b)?
Return(r) == [k |-> "return", node |-> r]        \* block.return_statement

Stepped(lines, todo) == [st |-> "ok", lines |-> lines, todo |-> todo]
Failed(e) == [st |-> "err", err |-> e.err]
Panicked == [st |-> "panic"]

Running == [st |-> "running"]
RetOk == [st |-> "ok"]
RetErr(e) == [st |-> "err", err |-> e]
RetPanic == [st |-> "panic"]
IoError(what) == [msg |-> what, node |-> NoNode]

RECURSIVE else_if_items(_)
\* for stmt in &stmt.else_ifs { head; nested block; "}" }
else_if_items(eis) ==
    IF eis = <<>> THEN <<>>
    ELSE <<Cond(<<"e", "l", "s", "e", " ", "i", "f", " ", "(">>, eis[1].condition, <<")", " ", "{">>), Call(eis[1].block), Line(<<"}">>)>>
         \o else_if_items(Tail(eis))

\* if let Some(block) = &stmt.else_block { "else {"; nested block; "}" }
else_items(eb) ==
    IF is_some(eb) THEN <<Line(<<"e", "l", "s", "e", " ", "{">>), Call(eb[1]), Line(<<"}">>)>> ELSE <<>>

\* one arm of `match stmt`, up to its first nested write_block call: the
\* lines it writes and what is left of the arm
write_stmt(stmt) ==
    CASE stmt.t = "None" -> Stepped(<< <<";">> >>, <<>>)
      [] stmt.t = "Assignment" ->
            IF Len(stmt.lhs) > 1 \/ Len(stmt.rhs) > 1
            THEN Failed(Err("Parallel assignment currently unsupported", NoNode))
            ELSE IF stmt.lhs = <<>> THEN Panicked
            ELSE LET l == expr_to_str(stmt.lhs[1])
                 IN IF ~l.ok THEN Failed(l)
                    ELSE IF stmt.rhs = <<>> THEN Panicked
                    ELSE LET r == expr_to_str(stmt.rhs[1])
                         IN IF ~r.ok THEN Failed(r)
                            ELSE Stepped(<< l.s \o <<" ", "=", " ">> \o r.s \o <<";">> >>, <<>>)
      [] stmt.t = "LocalDeclaration" ->
            IF Len(stmt.names) > 1
            THEN Failed(Err("Local multiple declarations currently unsupported", NoNode))
            ELSE IF ~is_some(stmt.values)
            THEN Failed(Err("Local declarations without assignment unsupported", NoNode))
            ELSE IF stmt.names = <<>> \/ stmt.values[1] = <<>> THEN Panicked
            ELSE LET v == expr_to_str(stmt.values[1][1])
                 IN IF ~v.ok THEN Failed(v)
                    ELSE Stepped(<< <<"v", "a", "r", " ">> \o stmt.names[1] \o <<" ", "=", " ">> \o v.s \o <<";">> >>, <<>>)
      [] stmt.t = "If" ->
            LET c == expr_to_str(stmt.condition)
            IN IF ~c.ok THEN Failed(c)
               ELSE Stepped(<< <<"i", "f", " ", "(">> \o c.s \o <<")", " ", "{">> >>,
                            <<Call(stmt.block), Line(<<"}">>)>>
                                \o else_if_items(stmt.else_ifs) \o else_items(stmt.else_block))
      [] stmt.t = "While" ->
            LET c == expr_to_str(stmt.condition)
            IN IF ~c.ok THEN Failed(c)
               ELSE Stepped(<< <<"w", "h", "i", "l", "e", " ", "(">> \o c.s \o <<")", " ", "{">> >>,
                            <<Call(stmt.block), Line(<<"}">>)>>)
      [] stmt.t = "For" ->
            LET a == expr_to_str(stmt.start)
            IN IF ~a.ok THEN Failed(a)
               ELSE LET b == expr_to_str(stmt.end)
                    IN IF ~b.ok THEN Failed(b)
                       ELSE LET c == expr_to_str(stmt.step)
                            IN IF ~c.ok THEN Failed(c)
                               ELSE Stepped(<< <<"f", "o", "r", " ", "(", "v", "a", "r", " ">> \o stmt.name \o <<" ", "=", " ">> \o a.s \o <<";", " ">>
                                               \o b.s \o <<";", " ">> \o c.s \o <<")", " ", "{">> >>,
                                            <<Call(stmt.block), Line(<<"}">>)>>)
      [] stmt.t = "Break" -> Stepped(<< <<"b", "r", "e", "a", "k", ";">> >>, <<>>)
      [] stmt.t = "Do" ->
            Stepped(<< <<"(", "f", "u", "n", "c", "t", "i", "o", "n", "(", ")", " ", "{">> >>, <<Call(stmt.block), Line(<<"}", ")", "(", ")", ";">>)>>)
      [] stmt.t = "FunctionCall" ->
            LET c == funcall_to_string(stmt.call)
            IN IF ~c.ok THEN Failed(c) ELSE Stepped(<< c.s \o <<";">> >>, <<>>)
      [] stmt.t = "FunctionDefinition" ->
            IF stmt.variadic
            THEN Failed(Err("Variadic functions currently unsupported", NoNode))
            ELSE IF stmt.names = <<>> THEN Panicked
            ELSE Stepped(<< <<"f", "u", "n", "c", "t", "i", "o", "n", " ">> \o stmt.names[1] \o <<"(">>
                            \o join(stmt.parameters, <<",", " ">>) \o <<")", " ", "{">> >>,
                         <<Call(stmt.block), Line(<<"}">>)>>)
      [] stmt.t = "FunctionDefinitionLocal" ->
            IF stmt.variadic
            THEN Failed(Err("Variadic functions currently unsupported", NoNode))
            ELSE Stepped(<< <<"v", "a", "r", " ">> \o stmt.name \o <<" ", "=", " ", "(">>
                            \o join(stmt.parameters, <<",", " ">>) \o <<")", " ", "=", ">", " ", "{">> >>,
                         <<Call(stmt.block), Line(<<"}", ";">>)>>)
      [] OTHER -> Failed(Err("Statement unsupported", stmt))

\* if let Some(stmt) = &block.return_statement { ... }
write_return(stmt) ==
    IF Len(stmt.values) > 1
    THEN Failed(Err("Multiple return values currently unsupported", NoNode))
    ELSE IF stmt.values = <<>> THEN Panicked
    ELSE LET v == expr_to_str(stmt.values[1])
         IN IF ~v.ok THEN Failed(v)
            ELSE Stepped(<< <<"r", "e", "t", "u", "r", "n", " ">> \o v.s \o <<";">> >>, <<>>)

\* the body of an invocation on entry: the statements, then the return
block_items(block) ==
    [i \in 1..Len(block.statements) |-> Stmt(block.statements[i])]
        \o (IF is_some(block.return_statement)
            THEN <<Return(block.return_statement[1])>> ELSE <<>>)

\* let mut buf = Vec::new()
new_frame(block) == [todo |-> block_items(block), buf |-> <<>>]

\* a write_block whose body writes straight into real_out
unbuffered == FALSE

\* let out = &mut Cursor::new(&mut buf): the body writes into the private buffer
buffered == TRUE

\* writeln!(out, ..) by the innermost invocation, once per text of `texts`
emit(stk, fil, texts) ==
    LET n == Len(stk)
        ls == [i \in 1..Len(texts) |-> [txt |-> texts[i], depth |-> n - 1]]
        fs == [i \in 1..Len(texts) |-> [txt |-> texts[i], depth |-> n - 1, nl |-> TRUE]]
    IN IF buffered THEN [stack |-> [stk EXCEPT ![n].buf = @ \o ls], file |-> fil]
       ELSE IF n = 1 THEN [stack |-> stk, file |-> fil \o fs]
       ELSE [stack |-> [stk EXCEPT ![n - 1].buf = @ \o ls], file |-> fil]

\* for line in buf.lines() { writeln!(real_out, "{}{}", "    ".repeat(self.indent), line) }
flushed(buf, ind) ==
    [i \in 1..Len(buf) |-> [txt |-> repeat(IndentUnit, ind) \o buf[i].txt, depth |-> buf[i].depth]]

RECURSIVE byte_len(_)
\* the bytes writeln! hands to real_out for the lines: each text and a line feed
byte_len(lines) ==
    IF lines = <<>> THEN 0 ELSE Len(Head(lines).txt) + 1 + byte_len(Tail(lines))

RECURSIVE written(_, _)
\* what the file holds of the lines once n of their bytes have reached it: the
\* whole lines, then the part of the line the writing stopped in
written(lines, n) ==
    IF lines = <<>> \/ n = 0 THEN <<>>
    ELSE LET l == Head(lines)
         IN IF n > Len(l.txt)
            THEN <<[txt |-> l.txt, depth |-> l.depth, nl |-> TRUE]>>
                    \o written(Tail(lines), n - Len(l.txt) - 1)
            ELSE <<[txt |-> SubSeq(l.txt, 1, n), depth |-> l.depth, nl |-> FALSE]>>

\* a main that drops the Result of luaize
ignore_luaize(r) == "args"

\* main: luaize(&lua_path()?, &mut out)?; the next position of main
after_luaize(r) == IF r.st = "ok" THEN "args" ELSE "exit"

----------------------------------------------------------------------------
(* The programs dnscontrol.lua may hold *)

SampleBytes == {0, 10, 15, 16, 65, 255}
Bytes == 0..255

ByteSeqs ==
    UNION {[1..n -> SampleBytes] : n \in 0..MaxBytes} \cup {<<b>> : b \in Bytes}

X == Ident(<<"x">>)
This == Ident(<<"t", "h", "i", "s">>)
Seven == Numeric(7)

Atoms == {X, This, Ident(<<"o", "b", "j">>), Bool(TRUE), Bool(FALSE), Numeric(0), Seven, Numeric(42),
          Nil, Variadic}

UnaryOps == {"Length", "Minus", "Plus", "LogicalNot"}
BinaryOps == {"Add", "Sub", "Mul", "Div", "FloorDiv", "Mod", "Concat", "Equal", "NotEqual",
              "GreaterThan", "GreaterEqual", "LessThan", "LessEqual", "LogicalAnd"}

ArgSeqs == UNION {[1..n -> {X, This, Seven}] : n \in 0..MaxArgs}

Calls ==
    {ExprFunctionCall(p, m, as) :
        p \in {Ident(<<"f">>), Ident(<<"o", "b", "j">>), This}, m \in {None, Some(<<"m">>)}, as \in ArgSeqs}
    \cup {ExprFunctionCall(TableIndex(Ident(<<"o", "b", "j">>), X), Some(<<"m">>), <<Seven>>),
          ExprFunctionCall(Variadic, Some(<<"m">>), <<This>>)}

Fields == {KeyValue(X, Seven), KeyValue(This, Variadic), NameValue(<<"n">>, X), Value(Seven)}

Nested ==
    {Binary("Add", Unary("Minus", X), FunctionCall(Ident(<<"o", "b", "j">>), Some(<<"m">>), <<X>>)),
     Binary("LogicalAnd", This, Variadic),
     Binary("Sub", Variadic, This),
     Unary("LogicalNot", This),
     TableIndex(Table(<<NameValue(<<"n">>, Seven)>>), String(<<110>>)),
     FunctionCall(Ident(<<"f">>), None, <<Table(<<Value(This)>>), This>>),
     Unary("Length", Binary("Concat", String(<<5>>), String(<<255, 0>>)))}

ExprInputs ==
    Atoms
    \cup {String(bs) : bs \in ByteSeqs}
    \cup {Unary(op, v) : op \in UnaryOps, v \in {X, This, Seven}}
    \cup {Binary(op, l, r) : op \in BinaryOps, l \in {X, This}, r \in {Seven, This}}
    \cup {[t |-> "FunctionCall", call |-> c] : c \in Calls}
    \cup {Table(fs) : fs \in UNION {[1..n -> Fields] : n \in 0..2}}
    \cup {TableIndex(tb, ix) : tb \in {X, This}, ix \in {Seven, This}}
    \cup Nested

\* statements without a nested block
FlatStmts ==
    {StmtNone, Break, Goto(<<"l">>),
     Assignment(<<X>>, <<Seven>>),
     Assignment(<<X, Ident(<<"y">>)>>, <<Seven, This>>),
     LocalDeclaration(<< <<"a">> >>, Some(<<Seven, Numeric(42)>>)),
     LocalDeclaration(<< <<"a">> >>, Some(<<Seven, This>>)),
     StmtFunctionCall(Ident(<<"o", "b", "j">>), Some(<<"m">>), <<X>>)}

OtherStmts ==
    {Assignment(<<This>>, <<Variadic>>),
     Assignment(<<X>>, <<Seven, Seven>>),
     LocalDeclaration(<< <<"a">> >>, None),
     LocalDeclaration(<< <<"a">>, <<"b">> >>, None),
     LocalDeclaration(<< <<"a">>, <<"b">> >>, Some(<<This, Seven>>)),
     LocalDeclaration(<< <<"t", "h", "i", "s">> >>, Some(<<This>>)),
     StmtFunctionCall(This, None, <<>>)}

Returns ==
    {None, Some(ReturnStatement(<<>>)), Some(ReturnStatement(<<X>>)),
     Some(ReturnStatement(<<This>>)), Some(ReturnStatement(<<X, This>>))}

FlatBlocks ==
    {Block(ss, r) : ss \in UNION {[1..n -> FlatStmts] : n \in 0..MaxStmts}, r \in Returns}
    \cup {Block(<<s>>, r) : s \in OtherStmts, r \in {None, Some(ReturnStatement(<<X, This>>))}}

ExprBlocks == {Block(<<Assignment(<<X>>, <<e>>)>>, None) : e \in ExprInputs}

\* the blocks put innermost
Core ==
    {Block(<<Assignment(<<X>>, <<Seven>>)>>, None),
     Block(<<>>, Some(ReturnStatement(<<X>>))),
     Block(<<>>, Some(ReturnStatement(<<>>))),
     Block(<<LocalDeclaration(<< <<"a">> >>, Some(<<Seven, This>>))>>, None),
     Block(<<Assignment(<<X, X>>, <<Seven>>)>>, None)}

Wrappers == {"if", "chain", "while", "for", "do", "function", "method", "variadic",
             "local function", "repeat", "guarded"}
DeepWrappers == {"chain", "do", "function"}

\* a statement of each kind that holds block b
wrap(kind, b) ==
    CASE kind = "if" -> If(X, b, <<>>, None)
      [] kind = "chain" -> If(X, b, <<ElseIf(Seven, b)>>, Some(b))
      [] kind = "guarded" -> If(X, Block(<<>>, None), <<ElseIf(This, b)>>, None)
      [] kind = "while" -> While(X, b)
      [] kind = "for" -> For(<<"i">>, Numeric(0), Seven, Numeric(1), b)
      [] kind = "do" -> Do(b)
      [] kind = "function" -> FunctionDefinition(<< <<"f">> >>, << <<"p">>, <<"q">> >>, FALSE, b)
      [] kind = "method" -> FunctionDefinition(<< <<"o", "b", "j">>, <<"m">> >>, <<>>, FALSE, b)
      [] kind = "variadic" -> FunctionDefinition(<< <<"f">> >>, << <<"p">> >>, TRUE, b)
      [] kind = "local function" -> FunctionDefinitionLocal(<<"g">>, << <<"p">> >>, FALSE, b)
      [] kind = "repeat" -> Repeat(b, X)

RECURSIVE Nest(_)
\* the blocks whose innermost block lies d levels deep
Nest(d) ==
    IF d = 0 THEN Core
    ELSE {Block(<<StmtNone, wrap(k, b), Break>>, None) :
            k \in (IF d = 1 THEN Wrappers ELSE DeepWrappers), b \in Nest(d - 1)}

NestedBlocks ==
    UNION {Nest(d) : d \in 1..MaxNest}
    \cup {Block(b.statements \o <<s>>, None) :
            b \in Nest(1), s \in {Assignment(<<X, X>>, <<Seven>>)}}
    \cup {Block(b.statements, Some(ReturnStatement(<<X, This>>))) : b \in Nest(1)}

Inputs == {Unparsable} \cup FlatBlocks \cup ExprBlocks \cup NestedBlocks

----------------------------------------------------------------------------
(* The host process and the block writer, step by step *)

Init ==
    /\ input \in Inputs
    /\ pc = "create"
    /\ stack = <<>>
    /\ indent = 0
    /\ file = <<>>
    /\ ret = Running
    /\ exit = Running
    /\ spawned = FALSE

top == stack[Len(stack)]

\* main: let mut out = File::create(js_path()?)?
Create ==
    /\ pc = "create"
    /\ \E ok \in BOOLEAN :
        IF ok THEN pc' = "lua_path" /\ file' = <<>> /\ exit' = exit
        ELSE pc' = "exit" /\ exit' = RetErr(IoError("create")) /\ file' = file
    /\ UNCHANGED <<input, stack, indent, ret, spawned>>

\* main: lua_path()?, the argument of the call of luaize
LuaPath ==
    /\ pc = "lua_path"
    /\ \E ok \in BOOLEAN :
        IF ok THEN pc' = "read" /\ exit' = exit
        ELSE pc' = "exit" /\ exit' = RetErr(IoError("current_dir"))
    /\ UNCHANGED <<input, stack, indent, file, ret, spawned>>

\* luaize: let source = std::fs::read(path)?
Read ==
    /\ pc = "read"
    /\ \E ok \in BOOLEAN :
        IF ok THEN pc' = "parse" /\ ret' = ret
        ELSE pc' = "luaized" /\ ret' = RetErr(IoError("read"))
    /\ UNCHANGED <<input, stack, indent, file, exit, spawned>>

\* luaize: let ast = lua_parser::parse_bytes(&source)?
Parse ==
    /\ pc = "parse"
    /\ IF input = Unparsable
       THEN pc' = "luaized" /\ ret' = RetErr(IoError("parse"))
       ELSE pc' = "translate" /\ ret' = ret
    /\ UNCHANGED <<input, stack, indent, file, exit, spawned>>

\* luaize: BlockWriter::new().write_block(out, &ast), up to self.indent += 1
Translate ==
    /\ pc = "translate"
    /\ pc' = "writing"
    /\ stack' = <<new_frame(input)>>
    /\ indent' = 0 + 1
    /\ UNCHANGED <<input, file, ret, exit, spawned>>

\* the innermost invocation is in its body
InBody == pc = "writing" /\ ret = Running /\ stack # <<>> /\ top.todo # <<>>

\* what a rendering step leaves: the lines written, the rest of the body
Apply(r) ==
    CASE r.st = "ok" ->
            LET e == emit(stack, file, r.lines)
            IN /\ stack' = [e.stack EXCEPT ![Len(stack)].todo = r.todo \o Tail(@)]
               /\ file' = e.file
               /\ UNCHANGED <<pc, ret, exit>>
      [] r.st = "err" ->
            /\ ret' = RetErr(r.err)
            /\ UNCHANGED <<pc, stack, file, exit>>
      [] r.st = "panic" ->
            /\ pc' = "abort"
            /\ ret' = RetPanic
            /\ exit' = RetPanic
            /\ UNCHANGED <<stack, file>>

\* for stmt in &block.statements { match stmt { .. } }
ExecStmt ==
    /\ InBody
    /\ Head(top.todo).k = "stmt"
    /\ Apply(write_stmt(Head(top.todo).node))
    /\ UNCHANGED <<input, indent, spawned>>

\* writeln!(out, "else if ({}) {{", expr_to_str(&stmt.condition)?)?
ExecCond ==
    /\ InBody
    /\ Head(top.todo).k = "cond"
    /\ LET it == Head(top.todo)
           c == expr_to_str(it.e)
       IN Apply(IF ~c.ok THEN Failed(c) ELSE Stepped(<< it.pre \o c.s \o it.post >>, <<>>))
    /\ UNCHANGED <<input, indent, spawned>>

\* writeln!(out, "}}")? and the other fixed lines
ExecLine ==
    /\ InBody
    /\ Head(top.todo).k = "line"
    /\ Apply(Stepped(<< Head(top.todo).s >>, <<>>))
    /\ UNCHANGED <<input, indent, spawned>>

\* self.write_block(out, &stmt.block)?, up to self.indent += 1
ExecCall ==
    /\ InBody
    /\ Head(top.todo).k = "call"
    /\ stack' = Append([stack EXCEPT ![Len(stack)].todo = Tail(@)],
                       new_frame(Head(top.todo).block))
    /\ indent' = indent + 1
    /\ UNCHANGED <<input, pc, file, ret, exit, spawned>>

\* if let Some(stmt) = &block.return_statement { .. }
ExecReturn ==
    /\ InBody
    /\ Head(top.todo).k = "return"
    /\ Apply(write_return(Head(top.todo).node))
    /\ UNCHANGED <<input, indent, spawned>>

\* self.indent -= 1, the flush of buf into real_out and Ok(()) of a nested invocation
FinishNested ==
    /\ pc = "writing" /\ ret = Running
    /\ Len(stack) > 1 /\ top.todo = <<>>
    /\ indent' = indent - 1
    /\ stack' = [SubSeq(stack, 1, Len(stack) - 1)
                    EXCEPT ![Len(stack) - 1].buf = @ \o flushed(top.buf, indent - 1)]
    /\ UNCHANGED <<input, pc, file, ret, exit, spawned>>

\* the same of the outermost invocation, whose real_out is the file: a write to
\* it may fail once n bytes have reached the file, inside a line or between two
FinishTop ==
    /\ pc = "writing" /\ ret = Running
    /\ Len(stack) = 1 /\ top.todo = <<>>
    /\ indent' = indent - 1
    /\ stack' = <<>>
    /\ pc' = "luaized"
    /\ \E n \in 0..byte_len(flushed(top.buf, indent - 1)) :
        /\ file' = file \o written(flushed(top.buf, indent - 1), n)
        /\ ret' = IF n = byte_len(flushed(top.buf, indent - 1))
                  THEN RetOk ELSE RetErr(IoError("write"))
    /\ UNCHANGED <<input, exit, spawned>>

\* return Err(..) / `?`: the innermost invocation returns the error
Unwind ==
    /\ pc = "writing" /\ ret.st = "err"
    /\ stack # <<>>
    /\ stack' = SubSeq(stack, 1, Len(stack) - 1)
    /\ pc' = IF Len(stack) = 1 THEN "luaized" ELSE pc
    /\ UNCHANGED <<input, indent, file, ret, exit, spawned>>

\* main: luaize(..)?
LuaizeReturn ==
    /\ pc = "luaized"
    /\ pc' = after_luaize(ret)
    /\ exit' = IF after_luaize(ret) = "exit" THEN ret ELSE exit
    /\ UNCHANGED <<input, stack, indent, file, ret, spawned>>

\* main: for arg in std::env::args() { cmd.arg(arg); }, where args() panics on
\* an argument of the process that is not Unicode
Args ==
    /\ pc = "args"
    /\ \E unicode \in BOOLEAN :
        IF unicode THEN pc' = "spawn" /\ exit' = exit
        ELSE pc' = "abort" /\ exit' = RetPanic
    /\ UNCHANGED <<input, stack, indent, file, ret, spawned>>

\* main: let mut child = cmd.spawn()?
Spawn ==
    /\ pc = "spawn"
    /\ \E ok \in BOOLEAN :
        IF ok THEN pc' = "wait" /\ spawned' = TRUE /\ exit' = exit
        ELSE pc' = "exit" /\ spawned' = spawned /\ exit' = RetErr(IoError("spawn"))
    /\ UNCHANGED <<input, stack, indent, file, ret>>

\* main: child.wait()?; Ok(())
Wait ==
    /\ pc = "wait"
    /\ pc' = "exit"
    /\ \E ok \in BOOLEAN : exit' = IF ok THEN RetOk ELSE RetErr(IoError("wait"))
    /\ UNCHANGED <<input, stack, indent, file, ret, spawned>>

Next ==
    \/ Create
    \/ LuaPath
    \/ Read
    \/ Parse
    \/ Translate
    \/ ExecStmt
    \/ ExecCond
    \/ ExecLine
    \/ ExecCall
    \/ ExecReturn
    \/ FinishNested
    \/ FinishTop
    \/ Unwind
    \/ LuaizeReturn
    \/ Args
    \/ Spawn
    \/ Wait

Spec == Init /\ [][Next]_vars

----------------------------------------------------------------------------
(* Vocabulary of the properties *)

Range(q) == {q[i] : i \in 1..Len(q)}

\* the translation itself failed: write_block returned an error that is not a
\* failure of reading the input or of writing to the destination
TranslationFailed == ret.st = "err" /\ ret.err.msg \notin {"read", "parse", "write"}

\* the outermost write_block invocation has returned
WriteBlockReturned ==
    pc = "luaized" /\ (ret.st = "ok" \/ (ret.st = "err" /\ ret.err.msg \notin {"read", "parse"}))

Offence(msg, node) == Err(msg, node).err

RECURSIVE LeadingSpaces(_)
LeadingSpaces(txt) ==
    IF txt # <<>> /\ Head(txt) = " " THEN 1 + LeadingSpaces(Tail(txt)) ELSE 0

\* sub occurs in txt as a run of consecutive characters
Contains(txt, sub) ==
    \E i \in 1..(Len(txt) - Len(sub) + 1) : SubSeq(txt, i, i + Len(sub) - 1) = sub

RECURSIVE SubExprs(_)
\* every expression node of e, e included
SubExprs(e) ==
    {e} \cup
    CASE e.t = "Unary" -> SubExprs(e.value)
      [] e.t = "Binary" -> SubExprs(e.lhs) \cup SubExprs(e.rhs)
      [] e.t = "FunctionCall" ->
            SubExprs(e.call.prefix) \cup UNION {SubExprs(a) : a \in Range(e.call.args)}
      [] e.t = "Table" ->
            UNION {(IF f.t = "KeyValue" THEN SubExprs(f.key) ELSE {}) \cup SubExprs(f.value) :
                    f \in Range(e.fields)}
      [] e.t = "TableIndex" -> SubExprs(e.table) \cup SubExprs(e.index)
      [] OTHER -> {}

\* the expressions a statement carries
StmtExprs(s) ==
    CASE s.t = "Assignment" -> Range(s.lhs) \cup Range(s.rhs)
      [] s.t = "LocalDeclaration" -> IF is_some(s.values) THEN Range(s.values[1]) ELSE {}
      [] s.t = "If" -> {s.condition} \cup {ei.condition : ei \in Range(s.else_ifs)}
      [] s.t \in {"While", "Repeat"} -> {s.condition}
      [] s.t = "For" -> {s.start, s.end, s.step}
      [] s.t = "FunctionCall" -> {[t |-> "FunctionCall", call |-> s.call]}
      [] OTHER -> {}

\* the blocks a statement holds
StmtBlocks(s) ==
    CASE s.t = "If" ->
            {s.block} \cup {ei.block : ei \in Range(s.else_ifs)} \cup Range(s.else_block)
      [] s.t \in {"While", "For", "Do", "FunctionDefinition", "FunctionDefinitionLocal",
                  "Repeat"} -> {s.block}
      [] OTHER -> {}

RECURSIVE AllBlocks(_)
\* block b and every block nested in it
AllBlocks(b) ==
    {b} \cup UNION {AllBlocks(c) : c \in UNION {StmtBlocks(s) : s \in Range(b.statements)}}

AllStmts(b) == UNION {Range(c.statements) : c \in AllBlocks(b)}
AllReturns(b) == UNION {Range(c.return_statement) : c \in AllBlocks(b)}

\* every expression node of the tree of block b
AllExprs(b) ==
    UNION {SubExprs(e) : e \in UNION {StmtExprs(s) : s \in AllStmts(b)}
                                \cup UNION {Range(r.values) : r \in AllReturns(b)}}

RECURSIVE OutputLines(_)
\* the number of lines the translation of block b consists of
OutputLines(b) ==
    LET Sum(q) == LET RECURSIVE S(_)
                      S(i) == IF i > Len(q) THEN 0 ELSE q[i] + S(i + 1)
                  IN S(1)
        OfStmt(s) ==
            CASE s.t = "If" ->
                    2 + OutputLines(s.block)
                      + Sum([i \in 1..Len(s.else_ifs) |-> 2 + OutputLines(s.else_ifs[i].block)])
                      + (IF is_some(s.else_block) THEN 2 + OutputLines(s.else_block[1]) ELSE 0)
              [] s.t \in {"While", "For", "Do", "FunctionDefinition", "FunctionDefinitionLocal"} ->
                    2 + OutputLines(s.block)
              [] OTHER -> 1
    IN Sum([i \in 1..Len(b.statements) |-> OfStmt(b.statements[i])])
        + (IF is_some(b.return_statement) THEN 1 ELSE 0)

----------------------------------------------------------------------------
(* C1 *)

\* C1: in a successful translation every output line of a statement at nesting
\* depth N starts with exactly N indentation units, 4*N spaces.
C1_IndentMatchesDepth ==
    ret.st = "ok" =>
        \A i \in 1..Len(file) : LeadingSpaces(file[i].txt) = 4 * file[i].depth

----------------------------------------------------------------------------
(* C2 *)

\* C2 as claimed: whenever write_block has returned an error, nothing has been
\* written to the destination.
C2_NoOutputOnAnyError == ret.st = "err" => file = <<>>

\* C2 amended: whenever the translation itself fails (any error but a failed
\* write to the destination), nothing has been written to the file, and no
\* invocation still in flight has written to the buffer its caller supplied: the
\* last line there is the caller's own.
C2_NoOutputOnTranslationError ==
    TranslationFailed =>
        /\ file = <<>>
        /\ \A i \in 2..Len(stack) :
            /\ stack[i - 1].buf # <<>>
            /\ stack[i - 1].buf[Len(stack[i - 1].buf)].depth = i - 2

\* a parallel assignment fails after an empty statement, a completed nested
\* block and a break were rendered
C2_Witness ==
    /\ pc = "luaized"
    /\ TranslationFailed
    /\ ret.err.msg = "Parallel assignment currently unsupported"
    /\ Len(input.statements) = 4
    /\ input.statements[2] = Do(Block(<<Assignment(<<X>>, <<Seven>>)>>, None))
    /\ file = <<>>

----------------------------------------------------------------------------
(* C3 *)

HexDigits == <<"0", "1", "2", "3", "4", "5", "6", "7", "8", "9",
               "a", "b", "c", "d", "e", "f">>
IsHexDigit(ch) == \E d \in 1..16 : HexDigits[d] = ch
HexValue(ch) == (CHOOSE d \in 1..16 : HexDigits[d] = ch) - 1

RECURSIVE DecodeEscapes(_)
\* the target language's reading of the inside of a string literal made of
\* hexadecimal escapes: \x and exactly two hexadecimal digits give one byte
DecodeEscapes(body) ==
    IF body = <<>> THEN [ok |-> TRUE, bytes |-> <<>>]
    ELSE IF /\ Len(body) >= 4
            /\ body[1] = "\\" /\ body[2] = "x"
            /\ IsHexDigit(body[3]) /\ IsHexDigit(body[4])
         THEN LET rest == DecodeEscapes(SubSeq(body, 5, Len(body)))
              IN IF rest.ok
                 THEN [ok |-> TRUE,
                       bytes |-> <<16 * HexValue(body[3]) + HexValue(body[4])>> \o rest.bytes]
                 ELSE rest
         ELSE [ok |-> FALSE, bytes |-> <<>>]

\* the string literal of the line  x = "..";
LiteralOf(txt) == SubSeq(txt, 5, Len(txt) - 1)

\* C3: decoding the emitted string literal gives back the original bytes: the
\* same length, the same bytes, the same order.
C3_StringRoundTrip ==
    (/\ ret.st = "ok"
     /\ Len(input.statements) = 1
     /\ input.statements[1].t = "Assignment"
     /\ input.statements[1].rhs[1].t = "String")
    => LET lit == LiteralOf(file[1].txt)
           dec == DecodeEscapes(SubSeq(lit, 2, Len(lit) - 1))
       IN /\ Head(lit) = "\"" /\ lit[Len(lit)] = "\""
          /\ dec.ok
          /\ dec.bytes = input.statements[1].rhs[1].value

----------------------------------------------------------------------------
(* C4 *)

RECURSIVE JoinTexts(_)
JoinTexts(ts) ==
    IF ts = <<>> THEN <<>>
    ELSE IF Len(ts) = 1 THEN ts[1]
    ELSE ts[1] \o <<",", " ">> \o JoinTexts(Tail(ts))

\* receiver.method(receiver, args..)
MethodCallForm(c) ==
    LET recv == expr_to_str(c.prefix).s
        args == [i \in 1..Len(c.args) |-> expr_to_str(c.args[i]).s]
    IN recv \o <<".">> \o c.method[1] \o <<"(">> \o JoinTexts(<<recv>> \o args) \o <<")">>

\* C4: a rendered method-style call holds the receiver twice, as the syntactic
\* receiver before the method name and as the first argument, followed by the
\* original arguments in order.
C4_ReceiverTwice ==
    (/\ ret.st = "ok"
     /\ Len(input.statements) = 1
     /\ input.statements[1].t = "FunctionCall"
     /\ is_some(input.statements[1].call.method))
    => file[1].txt = MethodCallForm(input.statements[1].call) \o <<";">>

----------------------------------------------------------------------------
(* C5 *)

\* C5: a trailing return of zero values or of one value is translated, with a
\* return line emitted for it; only a return of more than one value fails, and
\* with an error value, never a crash.
C5_ReturnArity ==
    (input # Unparsable /\ Len(input.statements) = 0 /\ is_some(input.return_statement))
    => LET vs == input.return_statement[1].values
       IN /\ ret.st # "panic"
          /\ (WriteBlockReturned /\ Len(vs) = 0) => ~TranslationFailed
          /\ (WriteBlockReturned /\ Len(vs) = 1 /\ expr_to_str(vs[1]).ok) => ~TranslationFailed
          /\ ret.st = "ok" =>
                /\ Len(file) = 1
                /\ SubSeq(file[1].txt, 1, 6) = <<"r", "e", "t", "u", "r", "n">>
          /\ (WriteBlockReturned /\ Len(vs) > 1)
                => ret = RetErr(Offence("Multiple return values currently unsupported", NoNode))

----------------------------------------------------------------------------
(* C6 *)

\* C6: the translation never succeeds when the identifier `this` occurs
\* anywhere in the tree as an expression.
C6_ThisNeverTranslated ==
    ret.st = "ok" => This \notin AllExprs(input)

----------------------------------------------------------------------------
(* C7 *)

\* the text of expression e is in the output
Rendered(e) ==
    /\ expr_to_str(e).ok
    /\ \E i \in 1..Len(file) : Contains(file[i].txt, expr_to_str(e).s)

\* C7: when the translation succeeds, every target, value and name component
\* carried by every statement of the input is in the output.
C7_NothingDropped ==
    ret.st = "ok" =>
        /\ \A s \in AllStmts(input) :
            /\ \A e \in StmtExprs(s) : Rendered(e)
            /\ s.t = "FunctionDefinition" =>
                \A n \in Range(s.names) : \E i \in 1..Len(file) : Contains(file[i].txt, n)
        /\ \A r \in AllReturns(input) : \A e \in Range(r.values) : Rendered(e)

----------------------------------------------------------------------------
(* C8 *)

\* C8: dnscontrol is spawned only after the translation succeeded and its
\* whole output was written; when creating the output, reading, parsing,
\* translating or writing fails, main returns that error and never spawns.
C8_SpawnOnlyAfterSuccess ==
    /\ spawned => /\ ret.st = "ok"
                  /\ stack = <<>>
                  /\ Len(file) = OutputLines(input)
                  /\ \A i \in 1..Len(file) : file[i].nl
    /\ pc \in {"args", "spawn", "wait"} => ret.st = "ok"
    /\ (pc = "exit" /\ ret.st = "err") => ~spawned /\ exit = ret
    /\ (pc = "exit" /\ ret.st = "running") => ~spawned /\ exit.st = "err"
    /\ pc = "abort" => ~spawned

\* main has returned the error of a failed translation without spawning
C8_Witness ==
    /\ pc = "exit"
    /\ TranslationFailed
    /\ exit = ret
    /\ input.statements # <<>>
    /\ ~spawned

----------------------------------------------------------------------------
(* C9 *)

\* the binary operators of the substitution table
SupportedBinary ==
    {"Add", "Sub", "Mul", "Div", "FloorDiv", "Mod", "Concat", "Equal", "NotEqual",
     "GreaterThan", "GreaterEqual", "LessThan", "LessEqual"}

RECURSIVE Flatten(_)
Flatten(qs) == IF qs = <<>> THEN <<>> ELSE Head(qs) \o Flatten(Tail(qs))

RECURSIVE ExprOffences(_)
\* the offending nodes of expression e, the node before its operands, the
\* operands from left to right
ExprOffences(e) ==
    CASE e.t = "Ident" ->
            IF e = This THEN <<Offence("Illegal identifier 'this'", NoNode)>> ELSE <<>>
      [] e.t \in {"Bool", "Numeric", "Nil", "String"} -> <<>>
      [] e.t = "Unary" ->
            (IF e.op \in {"Length", "Minus", "Plus"} THEN <<>>
             ELSE <<Offence("Expression currently unsupported", e)>>)
            \o ExprOffences(e.value)
      [] e.t = "Binary" ->
            (IF e.op \in SupportedBinary THEN <<>>
             ELSE <<Offence("Unsupported binary operator", e)>>)
            \o ExprOffences(e.lhs) \o ExprOffences(e.rhs)
      [] e.t = "FunctionCall" ->
            ExprOffences(e.call.prefix)
            \o Flatten([i \in 1..Len(e.call.args) |-> ExprOffences(e.call.args[i])])
      [] e.t = "Table" ->
            Flatten([i \in 1..Len(e.fields) |->
                LET f == e.fields[i]
                IN CASE f.t = "KeyValue" -> ExprOffences(f.key) \o ExprOffences(f.value)
                     [] f.t = "NameValue" -> ExprOffences(f.value)
                     [] OTHER ->
                        <<Offence("Table value without a key currently unsupported", NoNode)>>
                        \o ExprOffences(f.value)])
      [] e.t = "TableIndex" -> ExprOffences(e.table) \o ExprOffences(e.index)
      [] OTHER -> <<Offence("Expression unsupported", e)>>

ExprsOffences(es) == Flatten([i \in 1..Len(es) |-> ExprOffences(es[i])])

RECURSIVE BlockOffences(_)
\* the offending nodes of block b in depth-first source order: the statements
\* in order, then the trailing return; of a statement its own checks, its
\* expressions from left to right, its nested blocks
BlockOffences(b) ==
    LET Variadics(s) ==
            IF s.variadic THEN <<Offence("Variadic functions currently unsupported", NoNode)>>
            ELSE <<>>
        OfStmt(s) ==
            CASE s.t \in {"None", "Break"} -> <<>>
              [] s.t = "Assignment" ->
                    (IF Len(s.lhs) > 1 \/ Len(s.rhs) > 1
                     THEN <<Offence("Parallel assignment currently unsupported", NoNode)>>
                     ELSE <<>>)
                    \o ExprsOffences(s.lhs) \o ExprsOffences(s.rhs)
              [] s.t = "LocalDeclaration" ->
                    (IF Len(s.names) > 1
                     THEN <<Offence("Local multiple declarations currently unsupported", NoNode)>>
                     ELSE <<>>)
                    \o (IF ~is_some(s.values)
                        THEN <<Offence("Local declarations without assignment unsupported", NoNode)>>
                        ELSE ExprsOffences(s.values[1]))
              [] s.t = "If" ->
                    ExprOffences(s.condition) \o BlockOffences(s.block)
                    \o Flatten([i \in 1..Len(s.else_ifs) |->
                            ExprOffences(s.else_ifs[i].condition)
                            \o BlockOffences(s.else_ifs[i].block)])
                    \o (IF is_some(s.else_block) THEN BlockOffences(s.else_block[1]) ELSE <<>>)
              [] s.t = "While" -> ExprOffences(s.condition) \o BlockOffences(s.block)
              [] s.t = "For" ->
                    ExprOffences(s.start) \o ExprOffences(s.end) \o ExprOffences(s.step)
                    \o BlockOffences(s.block)
              [] s.t = "Do" -> BlockOffences(s.block)
              [] s.t = "FunctionCall" -> ExprOffences([t |-> "FunctionCall", call |-> s.call])
              [] s.t \in {"FunctionDefinition", "FunctionDefinitionLocal"} ->
                    Variadics(s) \o BlockOffences(s.block)
              [] OTHER -> <<Offence("Statement unsupported", s)>>
        OfReturn(r) ==
            (IF Len(r.values) > 1
             THEN <<Offence("Multiple return values currently unsupported", NoNode)>>
             ELSE <<>>)
            \o ExprsOffences(r.values)
    IN Flatten([i \in 1..Len(b.statements) |-> OfStmt(b.statements[i])])
        \o (IF is_some(b.return_statement) THEN OfReturn(b.return_statement[1]) ELSE <<>>)

\* C9: the error the translation returns is the one of the first offending
\* node of the input in depth-first source order.
C9_FirstOffenceReported ==
    TranslationFailed =>
        /\ BlockOffences(input) # <<>>
        /\ ret.err = Head(BlockOffences(input))

\* C9, second half: once an error is set no further line is rendered, into the
\* file or into any buffer; the invocations only return.
C9_NothingAfterError ==
    [][ret.st = "err" =>
        /\ file' = file
        /\ Len(stack') <= Len(stack)
        /\ \A i \in 1..Len(stack') : stack'[i] = stack[i]]_vars

----------------------------------------------------------------------------
(* C10 *)

\* C10: every write_block invocation adds one to the counter on entry and has
\* taken it back on every exit, with success or with an error: the counter is
\* the number of invocations in flight, and 0 once the outermost has returned.
C10_CounterIsDepth == ret.st # "panic" => indent = Len(stack)

====
